---------------------------- MODULE Spec2Model ----------------------------
(***************************************************************************)
(* Line-following robot simulator with dual-sink telemetry (src/prog.py).  *)
(*                                                                         *)
(* The module models                                                       *)
(*   - TelemetryLogger: the local sqlite store and its implicit            *)
(*     "current session" binding (the module-level object `telemetry`),    *)
(*   - the http_* helpers: best-effort calls to the remote collector,      *)
(*   - IRLineSensor, PIDController, TrackState, MotorPair,                 *)
(*   - LineFollowerRobot.calibrate / follow_line, one step per call they   *)
(*     make, with the try/except of follow_line as control flow.           *)
(*                                                                         *)
(* Real numbers are fixed-point integers in units of 1e-6 (SCALE = 1.0),   *)
(* the unit in which the epsilon of read_normalized is 1.                  *)
(*                                                                         *)
(* A local write that raises leaves the store as it was: the statement or  *)
(* its commit failed and nothing of it is kept.                            *)
(***************************************************************************)
EXTENDS Integers, Sequences, FiniteSets, TLC

(***************************************************************************)
(* Bounds of the model.                                                    *)
(***************************************************************************)
\* rows the sessions table may hold (start_session is cut off beyond it)
MaxSessions == 2
\* follow_line calls in one behaviour
MaxScenarios == 1
\* frames one scenario may hold
MaxFrames == 2
\* store faults (sqlite errors) the environment may inject in one behaviour
MaxFaults == 2
\* the same, and the frames of a scenario, when two runs overlap (SpecConc)
MaxConcFaults == 1
MaxConcFrames == 1
\* records a direct client of the logger may append (SpecLogger)
MaxRecords == 3
\* readings of the clock by a direct client of the logger (SpecLogger)
MaxClock == 6
\* channels of the sensor array (n_sensors)
NSensors == 2

(***************************************************************************)
(* Program constants.                                                      *)
(***************************************************************************)
\* Python's None for an Optional[int] id; row ids start at 1
None == 0
VARIANT_ID == 1
\* 1.0 in fixed point
SCALE == 10 ^ 6

VARIABLES
    \* ---- TelemetryLogger (the module-level `telemetry`) and its database
    conn,               \* self._conn is not None
    session_id,         \* self.session_id: None or the id of the bound session
    sessions,           \* table sessions, row i has id i
    sensor_readings,    \* table sensor_readings, in insertion order
    actuator_commands,  \* table actuator_commands, in insertion order
    events,             \* table events, in insertion order
    clock,              \* datetime.utcnow(), one tick per reading
    \* ---- the remote collector, as the client sees it
    net,                \* the HTTP requests issued, in order
    remote_sessions,    \* the collector's sessions table (status, ended_at per id)
    \* ---- the robots and the runs they execute
    robot,              \* per robot: sensor calibration and PID state
    run,                \* per robot: the locals of its calibrate / follow_line call
    \* ---- history (not program state)
    audit,              \* successful local writes: who issued them, where they went
    faults,             \* store faults the environment may still inject
    scenarios,          \* follow_line calls made so far
    last                \* outcome of the last direct call on the logger

store == <<conn, session_id, sessions, sensor_readings, actuator_commands, events, clock>>
vars == <<conn, session_id, sessions, sensor_readings, actuator_commands, events, clock,
          net, remote_sessions, robot, run, audit, faults, scenarios, last>>

Robots == {1, 2}
Channels == 1..NSensors

(***************************************************************************)
(* TelemetryLogger.  Each operator is the effect of a call that returns;   *)
(* its first conjunct is the assertion the method starts with.             *)
(***************************************************************************)
connect ==
    /\ conn' = TRUE
    /\ UNCHANGED <<session_id, sessions, sensor_readings, actuator_commands, events, clock>>

close ==
    /\ conn' = FALSE
    /\ UNCHANGED <<session_id, sessions, sensor_readings, actuator_commands, events, clock>>

start_session(variant_id) ==
    /\ conn
    /\ sessions' = Append(sessions, [variant_id |-> variant_id, started_at |-> clock,
                                     ended_at |-> None, status |-> "running"])
    /\ session_id' = Len(sessions) + 1
    /\ clock' = clock + 1
    /\ UNCHANGED <<conn, sensor_readings, actuator_commands, events>>

\* faulty variant: end_session also clears the binding
end_session_unbinds(status) ==
    /\ conn /\ session_id # None
    /\ sessions' = [sessions EXCEPT ![session_id] =
                        [@ EXCEPT !.ended_at = clock, !.status = status]]
    /\ session_id' = None
    /\ clock' = clock + 1
    /\ UNCHANGED <<conn, sensor_readings, actuator_commands, events>>

end_session(status) ==
    /\ conn /\ session_id # None
    /\ sessions' = [sessions EXCEPT ![session_id] =
                        [@ EXCEPT !.ended_at = clock, !.status = status]]
    /\ clock' = clock + 1
    /\ UNCHANGED <<conn, session_id, sensor_readings, actuator_commands, events>>

\* faulty variant: the reading replaces the latest reading
log_sensor_rewrites(sensor_type, value, unit) ==
    /\ conn /\ session_id # None
    /\ sensor_readings' =
          Append(IF sensor_readings = <<>> THEN <<>>
                 ELSE SubSeq(sensor_readings, 1, Len(sensor_readings) - 1),
                 [session_id |-> session_id, sensor_type |-> sensor_type,
                  timestamp |-> clock, value |-> value, unit |-> unit])
    /\ clock' = clock + 1
    /\ UNCHANGED <<conn, session_id, sessions, actuator_commands, events>>

log_sensor(sensor_type, value, unit) ==
    /\ conn /\ session_id # None
    /\ sensor_readings' = Append(sensor_readings,
           [session_id |-> session_id, sensor_type |-> sensor_type,
            timestamp |-> clock, value |-> value, unit |-> unit])
    /\ clock' = clock + 1
    /\ UNCHANGED <<conn, session_id, sessions, actuator_commands, events>>

\* faulty variant: the command of the right motor is not stored
log_command_left_only(actuator_type, command, status) ==
    /\ conn /\ session_id # None
    /\ actuator_commands' =
           IF actuator_type = "Motor_R" THEN actuator_commands
           ELSE Append(actuator_commands,
                    [session_id |-> session_id, actuator_type |-> actuator_type,
                     timestamp |-> clock, command |-> command, status |-> status])
    /\ clock' = clock + 1
    /\ UNCHANGED <<conn, session_id, sessions, sensor_readings, events>>

log_command(actuator_type, command, status) ==
    /\ conn /\ session_id # None
    /\ actuator_commands' = Append(actuator_commands,
           [session_id |-> session_id, actuator_type |-> actuator_type,
            timestamp |-> clock, command |-> command, status |-> status])
    /\ clock' = clock + 1
    /\ UNCHANGED <<conn, session_id, sessions, sensor_readings, events>>

log_event(event_type, severity, message) ==
    /\ conn /\ session_id # None
    /\ events' = Append(events,
           [session_id |-> session_id, timestamp |-> clock, event_type |-> event_type,
            severity |-> severity, message |-> message])
    /\ clock' = clock + 1
    /\ UNCHANGED <<conn, session_id, sessions, sensor_readings, actuator_commands>>

\* faulty variant: the channels are named from the far end
SensorName_reversed(c) == <<"IR", NSensors + 1 - c>>

\* f"IR_{i+1}" for the channel at index i, as a pair
SensorName(c) == <<"IR", c>>

\* the assertion of end_session and of the three log_* methods
Bound == conn /\ session_id # None

(***************************************************************************)
(* Arithmetic.  x / y is a float division in the source; here it is the    *)
(* quotient rounded to the nearest unit.                                   *)
(***************************************************************************)
Min(a, b) == IF a <= b THEN a ELSE b
Max(a, b) == IF a >= b THEN a ELSE b
\* max(lo, min(hi, x))
Clamp(lo, hi, x) == Max(lo, Min(hi, x))
\* a / b for b # 0
Quot(a, b) ==
    LET n == IF b > 0 THEN a ELSE 0 - a
        d == IF b > 0 THEN b ELSE 0 - b
        q == n \div d
    IN  IF 2 * (n - q * d) >= d THEN q + 1 ELSE q

RECURSIVE SumSeq(_)
SumSeq(s) == IF s = <<>> THEN 0 ELSE Head(s) + SumSeq(Tail(s))

(***************************************************************************)
(* IRLineSensor.                                                           *)
(***************************************************************************)
\* 1e-6
EPS == 1
\* the ends of random.uniform(-0.05, 0) and random.uniform(0, 0.05)
CalNoiseW == {0 - (SCALE \div 20), 0}
CalNoiseB == {SCALE \div 20}

\* calibrate(white_levels, black_levels), with the noise it drew per channel
sensor_calibrate(rb, white_levels, black_levels, noise_w, noise_b) ==
    [rb EXCEPT !.white = [c \in 1..rb.n |-> Min(SCALE, Max(0, white_levels[c] + noise_w[c]))],
               !.black = [c \in 1..rb.n |-> Min(SCALE, Max(0, black_levels[c] + noise_b[c]))]]

\* read_normalized raises: IndexError on a frame shorter than n, ZeroDivisionError
\* when white - black + 1e-6 is 0
ReadRaises(rb, raw_values) ==
    \/ Len(raw_values) < rb.n
    \/ \E c \in 1..rb.n : rb.white[c] - rb.black[c] + EPS = 0

\* max(0.0, min(1.0, a / d)) for d # 0.  The quotient is formed only where it lies
\* strictly between 0 and 1, in two stages of three digits each, which keeps every
\* intermediate value within the integers of the checker.
ClampedRatio(a, d) ==
    LET n == IF d > 0 THEN a ELSE 0 - a
        m == IF d > 0 THEN d ELSE 0 - d
        q1 == (n * 1000) \div m
        r1 == (n * 1000) % m
    IN  IF n <= 0 THEN 0
        ELSE IF n >= m THEN SCALE
        ELSE Min(SCALE, q1 * (SCALE \div 1000) + Quot(r1 * (SCALE \div 1000), m))

read_normalized(rb, raw_values) ==
    [c \in 1..rb.n |->
        ClampedRatio(raw_values[c] - rb.black[c], rb.white[c] - rb.black[c] + EPS)]

(***************************************************************************)
(* PIDController.update(error, dt).  Gains and dt are in tenths; the robot  *)
(* builds PIDController(0.8, 0.0, 0.2) and calls update with dt = 0.1.     *)
(***************************************************************************)
KP == 8
KI == 0
KD == 2
\* the default of dt
DT == 1

PidIntegral(rb, error, dt) == rb.integral + Quot(error * dt, 10)
PidDerivative(rb, error, dt) == Quot((error - rb.prev_error) * 10, dt)
PidOutput(rb, error, dt) ==
    Quot(rb.kp * error + rb.ki * PidIntegral(rb, error, dt)
            + rb.kd * PidDerivative(rb, error, dt), 10)
\* the value update returns
pid_update_out(rb, error, dt) == Max(0 - SCALE, Min(SCALE, PidOutput(rb, error, dt)))

\* faulty variant: prev_error is not stored
pid_update_keeps_prev(rb, error, dt) ==
    [rb EXCEPT !.integral = PidIntegral(rb, error, dt)]

\* the controller after update
pid_update(rb, error, dt) ==
    [rb EXCEPT !.integral = PidIntegral(rb, error, dt), !.prev_error = error]

(***************************************************************************)
(* TrackState.update: 0.2 <= sum / len <= 0.8, compared exactly.           *)
(***************************************************************************)
track_update(normalized_values) ==
    LET total == SumSeq(normalized_values)
        n == Len(normalized_values)
    IN  /\ 2 * SCALE * n <= 10 * total
        /\ 10 * total <= 8 * SCALE * n

(***************************************************************************)
(* MotorPair.drive: the pair it computes (the two log_command calls are    *)
(* steps of the run).                                                      *)
(***************************************************************************)
drive_left(base_speed, diff) == Max(0 - SCALE, Min(SCALE, base_speed - diff))
\* faulty variant: the right command is not clamped
drive_right_unclamped(base_speed, diff) == base_speed + diff

drive_right(base_speed, diff) == Max(0 - SCALE, Min(SCALE, base_speed + diff))

(***************************************************************************)
(* follow_line, lines 250 and 258-259: the jittered frame and the lateral  *)
(* position error.                                                         *)
(***************************************************************************)
\* the ends of random.uniform(-0.05, 0.05)
StepNoise == {0 - (SCALE \div 20), SCALE \div 20}
\* base_speed of the drive call
BASE_SPEED == SCALE \div 2

Noisy(raw, noise) == [k \in 1..Len(raw) |-> Max(0, Min(SCALE, raw[k] + noise[k]))]

\* faulty variant: the channel offsets are not centred on the middle channel
PositionError_uncentred(rb, norm) ==
    IF rb.n - 1 # 0
    THEN Quot(SumSeq([k \in 1..rb.n |-> (2 * (k - 1)) * (SCALE - norm[k])]), rb.n - 1)
    ELSE 0

\* sum((i - (n-1)/2) * (1 - norm[i])) / ((n-1)/2), numerator and denominator doubled
PositionError(rb, norm) ==
    IF rb.n - 1 # 0
    THEN Quot(SumSeq([k \in 1..rb.n |-> (2 * (k - 1) - (rb.n - 1)) * (SCALE - norm[k])]),
              rb.n - 1)
    ELSE 0

(***************************************************************************)
(* Initial state: the module has been imported (lines 118-120): the logger *)
(* is connected to an empty schema, no session is bound, and each robot is *)
(* as LineFollowerRobot.__init__ leaves it.                                *)
(***************************************************************************)
IdleRun ==
    [pc |-> "idle", kind |-> "none", sid |-> None, rsid |-> None, step |-> 0,
     norm |-> <<>>, i |-> 0, on_track_count |-> 0, off_track_count |-> 0,
     pid_out |-> 0, left |-> 0, right |-> 0, exc |-> "none", exc_pc |-> "none",
     wellformed |-> TRUE, lfaults |-> 0]

\* LineFollowerRobot(n_sensors): IRLineSensor(n_sensors) and PIDController(0.8, 0.0, 0.2)
NewRobot(n_sensors) ==
    [n |-> n_sensors, white |-> [c \in 1..n_sensors |-> SCALE],
     black |-> [c \in 1..n_sensors |-> 0],
     kp |-> KP, ki |-> KI, kd |-> KD, prev_error |-> 0, integral |-> 0]

InitWith(nfaults, n_sensors) ==
    /\ conn = TRUE
    /\ session_id = None
    /\ sessions = <<>>
    /\ sensor_readings = <<>>
    /\ actuator_commands = <<>>
    /\ events = <<>>
    /\ clock = 1
    /\ net = <<>>
    /\ remote_sessions = <<>>
    /\ robot = [r \in Robots |-> NewRobot(n_sensors)]
    /\ run = [r \in Robots |-> IdleRun]
    /\ audit = <<>>
    /\ faults = nfaults
    /\ scenarios = 0
    /\ last = [op |-> "none", ok |-> TRUE]

Init == InitWith(MaxFaults, NSensors)

(***************************************************************************)
(* A direct client of the logger: any sequence of its public methods.      *)
(* A call whose assertion fails raises AssertionError and changes nothing. *)
(***************************************************************************)
Statuses == {"completed", "error"}
rest == <<net, remote_sessions, robot, run, audit, faults, scenarios>>
Records == Len(sensor_readings) + Len(actuator_commands) + Len(events)

\* faulty variant: the call returns as if it had succeeded
TL_Raise_silent(op) ==
    /\ last' = [op |-> op, ok |-> TRUE]
    /\ UNCHANGED store

TL_Raise(op) ==
    /\ last' = [op |-> op, ok |-> FALSE]
    /\ UNCHANGED store

TL_Connect ==
    /\ ~conn
    /\ connect
    /\ last' = [op |-> "connect", ok |-> TRUE]
    /\ UNCHANGED rest

TL_Close ==
    /\ conn
    /\ close
    /\ last' = [op |-> "close", ok |-> TRUE]
    /\ UNCHANGED rest

TL_StartSession ==
    /\ Len(sessions) < MaxSessions /\ clock < MaxClock
    /\ IF conn
       THEN start_session(VARIANT_ID) /\ last' = [op |-> "start_session", ok |-> TRUE]
       ELSE TL_Raise("start_session")
    /\ UNCHANGED rest

TL_EndSession ==
    /\ clock < MaxClock
    /\ \E status \in Statuses :
          IF Bound
          THEN end_session(status) /\ last' = [op |-> "end_session", ok |-> TRUE]
          ELSE TL_Raise("end_session")
    /\ UNCHANGED rest

TL_LogSensor ==
    /\ Records < MaxRecords /\ clock < MaxClock
    /\ IF Bound
       THEN log_sensor(SensorName(1), SCALE, "v") /\ last' = [op |-> "log_sensor", ok |-> TRUE]
       ELSE TL_Raise("log_sensor")
    /\ UNCHANGED rest

TL_LogCommand ==
    /\ Records < MaxRecords /\ clock < MaxClock
    /\ IF Bound
       THEN log_command("Motor_L", SCALE, "sent") /\ last' = [op |-> "log_command", ok |-> TRUE]
       ELSE TL_Raise("log_command")
    /\ UNCHANGED rest

TL_LogEvent ==
    /\ Records < MaxRecords /\ clock < MaxClock
    /\ \E severity \in {"info", "warning"} :
          IF Bound
          THEN log_event("client", severity, <<"text">>) /\ last' = [op |-> "log_event", ok |-> TRUE]
          ELSE TL_Raise("log_event")
    /\ UNCHANGED rest

NextLogger ==
    \/ TL_Connect
    \/ TL_Close
    \/ TL_StartSession
    \/ TL_EndSession
    \/ TL_LogSensor
    \/ TL_LogCommand
    \/ TL_LogEvent

SpecLogger == Init /\ [][NextLogger]_vars

(***************************************************************************)
(* The collector (main.py).  Its handlers go through the module `database` *)
(* (db), which is not among the sources: db.create_session adds a running  *)
(* session, db.get_session returns the row of an id or nothing, and        *)
(* db.end_session stores the status and the time of ending.  The           *)
(* collector's time is the number of the request it is serving.            *)
(***************************************************************************)
RemoteRow == [status |-> "running", ended_at |-> None]
db_create_session == Append(remote_sessions, RemoteRow)
\* the row as a one-element sequence, or the empty sequence
db_get_session(id) ==
    IF id \in DOMAIN remote_sessions THEN <<remote_sessions[id]>> ELSE <<>>
db_end_session(id, status) ==
    [remote_sessions EXCEPT ![id] = [status |-> status, ended_at |-> Len(net) + 1]]

\* models.py, SessionEnd: the statuses a request may carry
SessionEnd == {"completed", "error"}

\* faulty variant: a session that has ended is ended again
api_end_session_code_reends(id, status) ==
    IF status \notin SessionEnd THEN 422
    ELSE IF db_get_session(id) = <<>> THEN 404
    ELSE 200

\* POST /sessions/{session_id}/end: the response code (422 when the body does
\* not validate, before the handler runs)
api_end_session_code(id, status) ==
    IF status \notin SessionEnd THEN 422
    ELSE IF db_get_session(id) = <<>> THEN 404
    ELSE IF db_get_session(id)[1].status # "running" THEN 400
    ELSE 200

\* and the sessions table it leaves
api_end_session(id, status) ==
    IF api_end_session_code(id, status) = 200
    THEN db_end_session(id, status)
    ELSE remote_sessions

(***************************************************************************)
(* The http_* helpers (lines 174-218).  `outcome` is what the network did  *)
(* with the request: "ok" (a success response) or "fail" (connection       *)
(* error, timeout or non-success response).  `result` is what the caller   *)
(* gets: "returned" or "raised".  A helper called with sid None returns    *)
(* before any request.                                                     *)
(***************************************************************************)
Outcomes == {"ok", "fail"}
Results == {"returned", "raised"}

Request(kind, sid, who, body) == [kind |-> kind, sid |-> sid, who |-> who, body |-> body]

\* the id http_create_session returns: r.json()["id"] when r.ok, else None
http_create_session_id(outcome) ==
    IF outcome = "ok" THEN Len(remote_sessions) + 1 ELSE None

\* faulty variant: the try / except around the request is missing
http_create_session_unguarded(who, outcome, result) ==
    /\ result = IF outcome = "fail" THEN "raised" ELSE "returned"
    /\ net' = Append(net, Request("create", None, who, <<VARIANT_ID>>))
    /\ remote_sessions' = IF outcome = "ok" THEN db_create_session ELSE remote_sessions

http_create_session(who, outcome, result) ==
    /\ result = "returned"
    /\ net' = Append(net, Request("create", None, who, <<VARIANT_ID>>))
    /\ remote_sessions' = IF outcome = "ok" THEN db_create_session ELSE remote_sessions

\* faulty variant: the try / except around the request is missing
http_log_sensor_unguarded(sid, sensor_type, value, unit, who, outcome, result) ==
    /\ result = IF sid # None /\ outcome = "fail" THEN "raised" ELSE "returned"
    /\ net' = IF sid = None THEN net
              ELSE Append(net, Request("sensor", sid, who, <<sensor_type, value, unit>>))
    /\ UNCHANGED remote_sessions

\* faulty variant: the early return on sid None is missing
http_log_sensor_always(sid, sensor_type, value, unit, who, outcome, result) ==
    /\ result = "returned"
    /\ net' = Append(net, Request("sensor", sid, who, <<sensor_type, value, unit>>))
    /\ UNCHANGED remote_sessions

http_log_sensor(sid, sensor_type, value, unit, who, outcome, result) ==
    /\ result = "returned"
    /\ net' = IF sid = None THEN net
              ELSE Append(net, Request("sensor", sid, who, <<sensor_type, value, unit>>))
    /\ UNCHANGED remote_sessions

http_log_actuator(sid, actuator_type, command, who, outcome, result) ==
    /\ result = "returned"
    /\ net' = IF sid = None THEN net
              ELSE Append(net, Request("actuator", sid, who, <<actuator_type, command, "sent">>))
    /\ UNCHANGED remote_sessions

http_log_event(sid, event_type, severity, message, who, outcome, result) ==
    /\ result = "returned"
    /\ net' = IF sid = None THEN net
              ELSE Append(net, Request("event", sid, who, <<event_type, severity, message>>))
    /\ UNCHANGED remote_sessions

\* faulty variant: the try / except around the request is missing
http_end_session_unguarded(sid, status, who, outcome, result) ==
    /\ result = IF sid # None /\ outcome = "fail" THEN "raised" ELSE "returned"
    /\ net' = IF sid = None THEN net
              ELSE Append(net, Request("end", sid, who, <<status>>))
    /\ UNCHANGED remote_sessions

\* the collector ends a session only while it is running (main.py, end_session)
http_end_session(sid, status, who, outcome, result) ==
    /\ result = "returned"
    /\ net' = IF sid = None THEN net
              ELSE Append(net, Request("end", sid, who, <<status>>))
    /\ remote_sessions' = IF sid # None /\ outcome = "ok" THEN api_end_session(sid, status)
                          ELSE remote_sessions

(***************************************************************************)
(* Runs.  A robot executes one call of calibrate or follow_line at a time; *)
(* run[r].pc is the call the run makes next.  A local write either returns *)
(* or raises (the assertion fails, or the store rejects the write).  An    *)
(* exception inside the try block of follow_line enters the handler; one   *)
(* raised anywhere else leaves the call ("raised").  The fields exc_pc     *)
(* (where the first exception was raised), wellformed (no short frame)     *)
(* and lfaults (local writes of this run that raised) are history.         *)
(***************************************************************************)
Terminal == {"completed", "errored", "raised"}
Idle(r) == run[r].pc \in {"idle"} \cup Terminal
\* The calls are synchronous and the sqlite3 connection belongs to the thread that
\* opened it, so two runs overlap only where a run hands control to its caller:
\* when follow_line fetches the next frame from measurements (line 249), the
\* iterable may run a whole other scenario before it yields.  Robot r may move
\* when no other run is in progress or when it is the run nested in that fetch.
Turn(r) ==
    \A q \in Robots \ {r} :
        \/ Idle(q)
        \/ run[q].pc = "loop" /\ (Idle(r) \/ run[r].sid > run[q].sid)

\* a frame of the scenario: well-formed ones (on the line, off the line) and a short one
LineUnder(c) == [k \in Channels |-> IF k = c THEN SCALE \div 5 ELSE (9 * SCALE) \div 10]
AllWhite == [k \in Channels |-> (98 * SCALE) \div 100]
ShortFrame == [k \in 1..(NSensors - 1) |-> SCALE \div 2]
FrameChoices == {LineUnder(1), AllWhite, ShortFrame}

\* the locals of the call after an exception; one raised by the first statement
\* of a call (where = "start") finds none of the locals of the call assigned
Thrown(r, where, e) ==
    LET base == IF where = "start" THEN IdleRun ELSE run[r]
    IN  [base EXCEPT !.pc = IF where = "try" THEN "exc_l" ELSE "raised", !.exc = e,
                     !.exc_pc = IF where = "handler" THEN @ ELSE base.pc]

\* a call on the local store: `effect` is the logger method, `pre` its assertion
LocalStep(r, pre, effect, op, okrun, where) ==
    \/ /\ effect
       /\ run' = [run EXCEPT ![r] = okrun]
       /\ audit' = Append(audit, [op |-> op, key |-> session_id', who |-> okrun.sid])
       /\ UNCHANGED <<net, remote_sessions, robot, faults, last>>
    \/ /\ ~pre \/ faults > 0
       /\ faults' = IF pre THEN faults - 1 ELSE faults
       /\ run' = [run EXCEPT ![r] =
                     [Thrown(r, where, IF pre THEN "OperationalError" ELSE "AssertionError")
                         EXCEPT !.lfaults = @ + 1]]
       /\ UNCHANGED <<store, net, remote_sessions, robot, audit, last>>

\* a call of an http_* helper
RemoteStep(r, call, okrun, where, result) ==
    /\ call
    /\ run' = [run EXCEPT ![r] = IF result = "returned" THEN okrun
                                 ELSE Thrown(r, where, "RequestException")]
    /\ UNCHANGED <<store, robot, audit, faults, last>>

At(r, pc) == run[r].pc = pc /\ Turn(r)
Goto(r, pc) == [run[r] EXCEPT !.pc = pc]

\* ---- LineFollowerRobot.calibrate (lines 227-233)
Cal_Start(r) ==
    /\ Turn(r)
    /\ Idle(r) /\ Len(sessions) < MaxSessions
    /\ UNCHANGED scenarios
    /\ LocalStep(r, conn, start_session(VARIANT_ID), "start",
                 [IdleRun EXCEPT !.pc = "cal_sensor", !.kind = "calibrate",
                                 !.sid = Len(sessions) + 1],
                 "start")

Cal_Sensor(r) ==
    /\ UNCHANGED scenarios
    /\ At(r, "cal_sensor")
    /\ \E noise_w \in [1..robot[r].n -> CalNoiseW], noise_b \in [1..robot[r].n -> CalNoiseB] :
          robot' = [robot EXCEPT ![r] =
                       sensor_calibrate(@, [c \in 1..robot[r].n |-> SCALE],
                                        [c \in 1..robot[r].n |-> 0], noise_w, noise_b)]
    /\ run' = [run EXCEPT ![r] = Goto(r, "cal_event")]
    /\ UNCHANGED <<store, net, remote_sessions, audit, faults, last>>

\* faulty variant: the completion Event is not logged
Cal_Event_silent(r) ==
    /\ UNCHANGED scenarios
    /\ At(r, "cal_event")
    /\ run' = [run EXCEPT ![r] = Goto(r, "cal_end")]
    /\ UNCHANGED <<store, net, remote_sessions, robot, audit, faults, last>>

Cal_Event(r) ==
    /\ UNCHANGED scenarios
    /\ At(r, "cal_event")
    /\ LocalStep(r, Bound, log_event("calibration", "info", <<"calibration done">>), "event",
                 Goto(r, "cal_end"), "outside")

Cal_End(r) ==
    /\ UNCHANGED scenarios
    /\ At(r, "cal_end")
    /\ LocalStep(r, Bound, end_session("completed"), "end", Goto(r, "completed"), "outside")

\* ---- LineFollowerRobot.follow_line (lines 235-295)
FL_Start(r) ==
    /\ Turn(r)
    /\ Idle(r) /\ Len(sessions) < MaxSessions /\ scenarios < MaxScenarios
    /\ scenarios' = scenarios + 1
    /\ LocalStep(r, conn, start_session(VARIANT_ID), "start",
                 [IdleRun EXCEPT !.pc = "create", !.kind = "follow_line",
                                 !.sid = Len(sessions) + 1],
                 "start")

FL_Create(r) ==
    /\ UNCHANGED scenarios
    /\ At(r, "create")
    /\ \E outcome \in Outcomes, result \in Results :
          /\ http_create_session(run[r].sid, outcome, result)
          /\ run' = [run EXCEPT ![r] =
                IF result = "raised" THEN Thrown(r, "outside", "RequestException")
                ELSE [run[r] EXCEPT !.rsid = http_create_session_id(outcome),
                                    !.pc = IF http_create_session_id(outcome) = None
                                           THEN "degrade" ELSE "rstart"]]
    /\ UNCHANGED <<store, robot, audit, faults, last>>

FL_Degrade(r) ==
    /\ UNCHANGED scenarios
    /\ At(r, "degrade")
    /\ LocalStep(r, Bound, log_event("server", "warning", <<"local only">>), "event",
                 Goto(r, "lstart"), "outside")

FL_RemoteStart(r) ==
    /\ UNCHANGED scenarios
    /\ At(r, "rstart")
    /\ \E o \in Outcomes, res \in Results :
          RemoteStep(r, http_log_event(run[r].rsid, "scenario_start", "info",
                                                    <<"start">>, run[r].sid, o, res),
                  Goto(r, "lstart"), "outside", res)

FL_LocalStart(r) ==
    /\ UNCHANGED scenarios
    /\ At(r, "lstart")
    /\ LocalStep(r, Bound, log_event("scenario_start_local", "info", <<"start">>), "event",
                 Goto(r, "loop"), "outside")

\* enumerate(measurements, 1) yields the next frame; lines 250-251
FL_NextFrame(r, limit, frames, noises) ==
    /\ UNCHANGED scenarios
    /\ At(r, "loop") /\ run[r].step < limit
    /\ \E raw \in frames :
         \E noise \in [1..Len(raw) -> noises] :
            run' = [run EXCEPT ![r] =
               IF ReadRaises(robot[r], Noisy(raw, noise))
               THEN [Thrown(r, "try", "IndexError") EXCEPT !.step = @ + 1, !.wellformed = FALSE]
               ELSE [run[r] EXCEPT !.step = @ + 1, !.i = 1, !.pc = "sens_l",
                                   !.norm = read_normalized(robot[r], Noisy(raw, noise))]]
    /\ UNCHANGED <<store, net, remote_sessions, robot, audit, faults, last>>

\* the scenario has no more frames
FL_Exhausted(r) ==
    /\ UNCHANGED scenarios
    /\ At(r, "loop")
    /\ run' = [run EXCEPT ![r] = Goto(r, "sum_l")]
    /\ UNCHANGED <<store, net, remote_sessions, robot, audit, faults, last>>

\* lines 253-256
FL_SensorLocal(r) ==
    /\ UNCHANGED scenarios
    /\ At(r, "sens_l")
    /\ LocalStep(r, Bound, log_sensor(SensorName(run[r].i), run[r].norm[run[r].i], "norm"),
                 "sensor", Goto(r, "sens_r"), "try")

FL_SensorRemote(r) ==
    /\ UNCHANGED scenarios
    /\ At(r, "sens_r")
    /\ \E o \in Outcomes, res \in Results :
          RemoteStep(r, http_log_sensor(run[r].rsid, SensorName(run[r].i),
                                         run[r].norm[run[r].i], "norm", run[r].sid, o, res),
                  IF run[r].i < Len(run[r].norm)
                  THEN [run[r] EXCEPT !.i = @ + 1, !.pc = "sens_l"]
                  ELSE Goto(r, "track"),
                  "try", res)

\* faulty variant: an off-track step is counted as on track as well
FL_Track_counts_both(r) ==
    /\ UNCHANGED scenarios
    /\ At(r, "track")
    /\ LET error == PositionError(robot[r], run[r].norm)
           on_track == track_update(run[r].norm)
       IN  /\ robot' = [robot EXCEPT ![r] = pid_update(@, error, DT)]
           /\ run' = [run EXCEPT ![r] =
                 [run[r] EXCEPT !.pid_out = pid_update_out(robot[r], error, DT),
                                !.on_track_count = @ + 1,
                                !.off_track_count = IF on_track THEN @ ELSE @ + 1,
                                !.pc = IF on_track THEN "drive_l" ELSE "off_l"]]
    /\ UNCHANGED <<store, net, remote_sessions, audit, faults, last>>

\* lines 258-267
FL_Track(r) ==
    /\ UNCHANGED scenarios
    /\ At(r, "track")
    /\ LET error == PositionError(robot[r], run[r].norm)
           on_track == track_update(run[r].norm)
       IN  /\ robot' = [robot EXCEPT ![r] = pid_update(@, error, DT)]
           /\ run' = [run EXCEPT ![r] =
                 [run[r] EXCEPT !.pid_out = pid_update_out(robot[r], error, DT),
                                !.on_track_count = IF on_track THEN @ + 1 ELSE @,
                                !.off_track_count = IF on_track THEN @ ELSE @ + 1,
                                !.pc = IF on_track THEN "drive_l" ELSE "off_l"]]
    /\ UNCHANGED <<store, net, remote_sessions, audit, faults, last>>

\* lines 268-269
FL_OffTrackLocal(r) ==
    /\ UNCHANGED scenarios
    /\ At(r, "off_l")
    /\ LocalStep(r, Bound, log_event("line_tracking", "warning", <<"left the line at step", run[r].step>>),
                 "event", Goto(r, "off_r"), "try")

FL_OffTrackRemote(r) ==
    /\ UNCHANGED scenarios
    /\ At(r, "off_r")
    /\ \E o \in Outcomes, res \in Results :
          RemoteStep(r, http_log_event(run[r].rsid, "line_tracking", "warning",
                                         <<"left the line at step", run[r].step>>, run[r].sid, o, res),
                  Goto(r, "drive_l"), "try", res)

\* line 277: MotorPair.drive, lines 162-166
FL_DriveLeft(r) ==
    /\ UNCHANGED scenarios
    /\ At(r, "drive_l")
    /\ LocalStep(r, Bound, log_command("Motor_L", drive_left(BASE_SPEED, run[r].pid_out), "sent"),
                 "command",
                 [run[r] EXCEPT !.left = drive_left(BASE_SPEED, run[r].pid_out),
                                !.right = drive_right(BASE_SPEED, run[r].pid_out),
                                !.pc = "drive_r"],
                 "try")

FL_DriveRight(r) ==
    /\ UNCHANGED scenarios
    /\ At(r, "drive_r")
    /\ LocalStep(r, Bound, log_command("Motor_R", run[r].right, "sent"), "command",
                 Goto(r, "act_l"), "try")

\* lines 279-280
FL_ActLeftRemote(r) ==
    /\ UNCHANGED scenarios
    /\ At(r, "act_l")
    /\ \E o \in Outcomes, res \in Results :
          RemoteStep(r, http_log_actuator(run[r].rsid, "Motor_L", run[r].left,
                                                       run[r].sid, o, res),
                  Goto(r, "act_r"), "try", res)

FL_ActRightRemote(r) ==
    /\ UNCHANGED scenarios
    /\ At(r, "act_r")
    /\ \E o \in Outcomes, res \in Results :
          RemoteStep(r, http_log_actuator(run[r].rsid, "Motor_R", run[r].right,
                                                       run[r].sid, o, res),
                  Goto(r, "loop"), "try", res)

\* lines 286-290
FL_SummaryLocal(r) ==
    /\ UNCHANGED scenarios
    /\ At(r, "sum_l")
    /\ LocalStep(r, Bound, log_event("scenario_end", "info", <<"done, left the line", run[r].off_track_count>>),
                 "event", Goto(r, "sum_r"), "try")

FL_SummaryRemote(r) ==
    /\ UNCHANGED scenarios
    /\ At(r, "sum_r")
    /\ \E o \in Outcomes, res \in Results :
          RemoteStep(r, http_log_event(run[r].rsid, "scenario_end", "info",
                             <<"done, left the line", run[r].off_track_count>>, run[r].sid, o, res),
                  Goto(r, "end_l"), "try", res)

FL_EndLocal(r) ==
    /\ UNCHANGED scenarios
    /\ At(r, "end_l")
    /\ LocalStep(r, Bound, end_session("completed"), "end", Goto(r, "end_r"), "try")

FL_EndRemote(r) ==
    /\ UNCHANGED scenarios
    /\ At(r, "end_r")
    /\ \E o \in Outcomes, res \in Results :
          RemoteStep(r, http_end_session(run[r].rsid, "completed", run[r].sid, o, res),
                  Goto(r, "completed"), "try", res)

\* the handler, lines 291-295
FL_ExcLocal(r) ==
    /\ UNCHANGED scenarios
    /\ At(r, "exc_l")
    /\ LocalStep(r, Bound, log_event("exception", "error", <<"scenario error", run[r].exc>>),
                 "event", Goto(r, "exc_r"), "handler")

FL_ExcRemote(r) ==
    /\ UNCHANGED scenarios
    /\ At(r, "exc_r")
    /\ \E o \in Outcomes, res \in Results :
          RemoteStep(r, http_log_event(run[r].rsid, "exception", "error",
                                         <<"scenario error", run[r].exc>>, run[r].sid, o, res),
                  Goto(r, "exc_end_l"), "handler", res)

FL_ExcEndLocal(r) ==
    /\ UNCHANGED scenarios
    /\ At(r, "exc_end_l")
    /\ LocalStep(r, Bound, end_session("error"), "end", Goto(r, "exc_end_r"), "handler")

FL_ExcEndRemote(r) ==
    /\ UNCHANGED scenarios
    /\ At(r, "exc_end_r")
    /\ \E o \in Outcomes, res \in Results :
          RemoteStep(r, http_end_session(run[r].rsid, "error", run[r].sid, o, res),
                  Goto(r, "errored"), "handler", res)

Step(r, limit, frames, noises) ==
    \/ Cal_Sensor(r) \/ Cal_Event(r) \/ Cal_End(r)
    \/ FL_Create(r) \/ FL_Degrade(r) \/ FL_RemoteStart(r) \/ FL_LocalStart(r)
    \/ FL_NextFrame(r, limit, frames, noises) \/ FL_Exhausted(r)
    \/ FL_SensorLocal(r) \/ FL_SensorRemote(r) \/ FL_Track(r)
    \/ FL_OffTrackLocal(r) \/ FL_OffTrackRemote(r)
    \/ FL_DriveLeft(r) \/ FL_DriveRight(r) \/ FL_ActLeftRemote(r) \/ FL_ActRightRemote(r)
    \/ FL_SummaryLocal(r) \/ FL_SummaryRemote(r) \/ FL_EndLocal(r) \/ FL_EndRemote(r)
    \/ FL_ExcLocal(r) \/ FL_ExcRemote(r) \/ FL_ExcEndLocal(r) \/ FL_ExcEndRemote(r)

\* the program as written (lines 308-344): one robot, one call after the other
Next == Cal_Start(1) \/ FL_Start(1) \/ Step(1, MaxFrames, FrameChoices, StepNoise)

Spec == Init /\ [][Next]_vars

\* two robots whose runs overlap, sharing the module-level logger
NextConc ==
    \E r \in Robots : Cal_Start(r) \/ FL_Start(r) \/ Step(r, MaxConcFrames, FrameChoices, StepNoise)

SpecConc == InitWith(MaxConcFaults, NSensors) /\ [][NextConc]_vars

(***************************************************************************)
(* The robot of the main program, LineFollowerRobot(n_sensors=5), on one   *)
(* frame, every draw of the step noise being 0.                            *)
(***************************************************************************)
N_DEFAULT == 5
\* faults of the local store in one behaviour
MaxStepFaults == 1
\* the first frame of measurements_normal, and the last of measurements_offline
NormalFrame ==
    <<(9 * SCALE) \div 10, (6 * SCALE) \div 10, (2 * SCALE) \div 10, (6 * SCALE) \div 10,
      (9 * SCALE) \div 10>>
OfflineFrame ==
    <<(95 * SCALE) \div 100, (95 * SCALE) \div 100, (95 * SCALE) \div 100,
      (95 * SCALE) \div 100, (95 * SCALE) \div 100>>

NextDefault ==
    Cal_Start(1) \/ FL_Start(1) \/ Step(1, 1, {NormalFrame, OfflineFrame}, {0})

SpecDefault == InitWith(MaxStepFaults, N_DEFAULT) /\ [][NextDefault]_vars

(***************************************************************************)
(* The sensor array on its own: read_normalized calls on the sensor of     *)
(* robot 1, before and after a calibrate call, the frame read into         *)
(* run[1].norm.  Levels may be equal or inverted on a channel.  calibrate  *)
(* overwrites both level lists from its arguments and its draws alone, so  *)
(* one call reaches every calibration a sequence of calls reaches.         *)
(***************************************************************************)
\* arguments of calibrate, per channel
CalLevels == {0, EPS, SCALE \div 2, SCALE}
\* draws of random.uniform(0, 0.05), its lower end included
CalNoiseBFull == {0, SCALE \div 20}
\* raw values of a frame, within [0, 1]
RawLevels == {0, SCALE \div 2, SCALE}

IR_Calibrate ==
    /\ last.op # "calibrate" /\ robot[1] = NewRobot(robot[1].n)
    /\ \E white_levels, black_levels \in [1..robot[1].n -> CalLevels] :
         \E noise_w \in [1..robot[1].n -> CalNoiseW], noise_b \in [1..robot[1].n -> CalNoiseBFull] :
            robot' = [robot EXCEPT ![1] =
                         sensor_calibrate(@, white_levels, black_levels, noise_w, noise_b)]
    /\ run' = [run EXCEPT ![1] = IdleRun]
    /\ last' = [op |-> "calibrate", ok |-> TRUE]
    /\ UNCHANGED <<store, net, remote_sessions, audit, faults, scenarios>>

IR_ReadNormalized ==
    /\ \E raw_values \in [1..robot[1].n -> RawLevels] :
          IF ReadRaises(robot[1], raw_values)
          THEN /\ run' = [run EXCEPT ![1] = [IdleRun EXCEPT !.exc = "ZeroDivisionError"]]
               /\ last' = [op |-> "read_normalized", ok |-> FALSE]
          ELSE /\ run' = [run EXCEPT ![1] =
                             [IdleRun EXCEPT !.norm = read_normalized(robot[1], raw_values)]]
               /\ last' = [op |-> "read_normalized", ok |-> TRUE]
    /\ UNCHANGED <<store, net, remote_sessions, robot, audit, faults, scenarios>>

NextSensor == IR_Calibrate \/ IR_ReadNormalized

SpecSensor == Init /\ [][NextSensor]_vars

(***************************************************************************)
(* The controller on its own: PIDController(kp, ki, kd) built for robot 1, *)
(* then any sequence of update(error, dt) calls; the value returned goes   *)
(* to run[1].pid_out, the calls made so far to audit.  The errors and the  *)
(* steps are such that every product and quotient is exact.                *)
(***************************************************************************)
\* update calls in one behaviour
MaxUpdates == 3
\* (kp, ki, kd), in tenths
PidGains == {<<KP, KI, KD>>, <<10, 5, 1>>}
PidErrors == {0 - SCALE, (3 * SCALE) \div 10, SCALE}
\* dt, in tenths
PidSteps == {DT, 5}

PID_Init ==
    /\ last.op = "none"
    /\ \E g \in PidGains :
          robot' = [robot EXCEPT ![1] = [@ EXCEPT !.kp = g[1], !.ki = g[2], !.kd = g[3],
                                                  !.prev_error = 0, !.integral = 0]]
    /\ last' = [op |-> "PIDController", ok |-> TRUE]
    /\ UNCHANGED <<store, net, remote_sessions, run, audit, faults, scenarios>>

PID_Update ==
    /\ Len(audit) < MaxUpdates
    /\ \E error \in PidErrors, dt \in PidSteps :
          /\ robot' = [robot EXCEPT ![1] = pid_update(@, error, dt)]
          /\ run' = [run EXCEPT ![1] = [@ EXCEPT !.pid_out = pid_update_out(robot[1], error, dt)]]
          /\ audit' = Append(audit, [op |-> "update", error |-> error, dt |-> dt])
    /\ last' = [op |-> "update", ok |-> TRUE]
    /\ UNCHANGED <<store, net, remote_sessions, faults, scenarios>>

NextPid == PID_Init \/ PID_Update

SpecPid == Init /\ [][NextPid]_vars

(***************************************************************************)
(* The motor pair on its own: a client that starts sessions on the logger  *)
(* and calls MotorPair.drive(base_speed, diff).  drive computes the pair,  *)
(* logs Motor_L, logs Motor_R and returns the pair (into run[1].left and   *)
(* run[1].right); the arguments of the calls made so far go to audit.      *)
(***************************************************************************)
\* drive calls in one behaviour
MaxDrives == 2
Speeds == {0 - 2 * SCALE, 0, SCALE \div 2, 3 * SCALE}
Diffs == {0 - 3 * SCALE, 0 - (SCALE \div 4), 0, SCALE, 5 * SCALE}

\* lines 162-165: the pair, then the first log_command
MP_DriveLeft ==
    /\ run[1].pc = "idle" /\ Len(audit) < MaxDrives
    /\ \E base_speed \in Speeds, diff \in Diffs :
          IF Bound
          THEN /\ log_command("Motor_L", drive_left(base_speed, diff), "sent")
               /\ run' = [run EXCEPT ![1] = [@ EXCEPT !.left = drive_left(base_speed, diff),
                                                      !.right = drive_right(base_speed, diff),
                                                      !.pc = "drive_r"]]
               /\ audit' = Append(audit, [op |-> "drive", base_speed |-> base_speed,
                                          diff |-> diff])
               /\ last' = [op |-> "log_command", ok |-> TRUE]
          ELSE /\ TL_Raise("drive")
               /\ UNCHANGED <<run, audit>>
    /\ UNCHANGED <<net, remote_sessions, robot, faults, scenarios>>

\* lines 166-167: the second log_command, and the return
MP_DriveRight ==
    /\ run[1].pc = "drive_r"
    /\ log_command("Motor_R", run[1].right, "sent")
    /\ run' = [run EXCEPT ![1] = [@ EXCEPT !.pc = "idle"]]
    /\ last' = [op |-> "drive", ok |-> TRUE]
    /\ UNCHANGED <<net, remote_sessions, robot, audit, faults, scenarios>>

NextDrive ==
    \/ run[1].pc = "idle" /\ TL_StartSession
    \/ MP_DriveLeft
    \/ MP_DriveRight

SpecDrive == Init /\ [][NextDrive]_vars

(***************************************************************************)
(* TrackState.update on its own, in the arithmetic the interpreter uses.   *)
(* normalized_values are floats, and sum(...) / len(...) rounds after      *)
(* every addition and after the division (binary64, round to nearest,      *)
(* ties to even).  A float in [2^-7, 8) is held exactly as a whole number  *)
(* of units of 2^-60, written in three limbs <<a, b, c>> of 20 bits:       *)
(* a * 2^40 + b * 2^20 + c.                                                *)
(***************************************************************************)
LIMB == 2 ^ 20

\* the floats 0.2, 0.8, 0.1999, 0.8001 and 0.5
F_0_2 == <<209715, 209715, 209728>>
F_0_8 == <<838860, 838860, 838912>>
F_0_1999 == <<209610, 359032, 442912>>
F_0_8001 == <<838965, 689543, 605696>>
F_0_5 == <<524288, 0, 0>>
F_ZERO == <<0, 0, 0>>

\* carries propagated
FNorm(a, b, c) ==
    LET b1 == b + (c \div LIMB)
    IN  <<a + (b1 \div LIMB), b1 % LIMB, c % LIMB>>

\* x + y and n * x without rounding
FAddExact(x, y) == FNorm(x[1] + y[1], x[2] + y[2], x[3] + y[3])
FScale(x, n) == FNorm(x[1] * n, x[2] * n, x[3] * n)

FLe(x, y) ==
    \/ x[1] < y[1]
    \/ x[1] = y[1] /\ x[2] < y[2]
    \/ x[1] = y[1] /\ x[2] = y[2] /\ x[3] <= y[3]

RECURSIVE Log2(_)
Log2(n) == IF n < 2 THEN 0 ELSE 1 + Log2(n \div 2)

\* the spacing of floats around x, as a power of two of units: a value in
\* [2^j, 2^(j+1)) has 52 fraction bits, so its last bit is worth 2^(j-52)
UlpExp(x) == Log2(x[1]) - 12

\* x (plus a fraction of a unit when sticky) rounded to a float: to the nearest
\* multiple of the spacing, a tie going to the even significand
FRound(x, sticky) ==
    LET k == UlpExp(x)
        u == 2 ^ k
        low == x[3] % u
        up == \/ 2 * low > u
              \/ 2 * low = u /\ sticky
              \/ 2 * low = u /\ (x[3] \div u) % 2 = 1
    IN  IF k < 1 THEN x
        ELSE FNorm(x[1], x[2], x[3] - low + (IF up THEN u ELSE 0))

\* float + float
FAdd(x, y) == FRound(FAddExact(x, y), FALSE)

\* float / int
FDivInt(x, n) ==
    LET t2 == (x[1] % n) * LIMB + x[2]
        t3 == (t2 % n) * LIMB + x[3]
    IN  FRound(<<x[1] \div n, t2 \div n, t3 \div n>>, t3 % n # 0)

\* sum(values): 0 + values[1] + values[2] + ..., left to right
RECURSIVE FSum(_, _)
FSum(values, k) ==
    IF k = 0 THEN F_ZERO
    ELSE IF k = 1 THEN values[1]
    ELSE FAdd(FSum(values, k - 1), values[k])

\* lines 171-172
track_update_float(normalized_values) ==
    LET avg == FDivInt(FSum(normalized_values, Len(normalized_values)),
                       Len(normalized_values))
    IN  FLe(F_0_2, avg) /\ FLe(avg, F_0_8)

\* values in one call of update
MaxTrackLen == 6
TrackValues == {F_0_2, F_0_8, F_0_1999, F_0_8001, F_0_5}
TrackFrames == UNION {[1..n -> TrackValues] : n \in 1..MaxTrackLen}

\* one call of update: the values in run[1].norm, the answer in the counters
TS_Update ==
    /\ last.op = "none"
    /\ \E normalized_values \in TrackFrames :
          LET on_track == track_update_float(normalized_values)
          IN  run' = [run EXCEPT ![1] =
                        [@ EXCEPT !.norm = normalized_values,
                                  !.on_track_count = IF on_track THEN 1 ELSE 0,
                                  !.off_track_count = IF on_track THEN 0 ELSE 1]]
    /\ last' = [op |-> "track_update", ok |-> TRUE]
    /\ UNCHANGED <<store, net, remote_sessions, robot, audit, faults, scenarios>>

NextTrack == TS_Update

SpecTrack == Init /\ [][NextTrack]_vars

(***************************************************************************)
(* The collector on its own: clients that create sessions and post end     *)
(* requests for any id, with any status in the body.  Every request is     *)
(* appended to net; the response code goes to last.                        *)
(***************************************************************************)
MaxApiSessions == 2
MaxRequests == 4
\* the status field of a request body: the two the model accepts and one it rejects
EndBodies == SessionEnd \cup {"running"}

\* POST /sessions (main.py lines 34-38)
API_CreateSession ==
    /\ Len(remote_sessions) < MaxApiSessions /\ Len(net) < MaxRequests
    /\ net' = Append(net, Request("create", None, None, <<VARIANT_ID>>))
    /\ remote_sessions' = db_create_session
    /\ last' = [op |-> "create", ok |-> TRUE, code |-> 201]
    /\ UNCHANGED <<store, robot, run, audit, faults, scenarios>>

\* POST /sessions/{session_id}/end (main.py lines 52-61)
API_EndSession ==
    /\ Len(net) < MaxRequests
    /\ \E id \in 1..(MaxApiSessions + 1), status \in EndBodies :
          /\ net' = Append(net, Request("end", id, None, <<status>>))
          /\ remote_sessions' = api_end_session(id, status)
          /\ last' = [op |-> "end", ok |-> api_end_session_code(id, status) = 200,
                      code |-> api_end_session_code(id, status)]
    /\ UNCHANGED <<store, robot, run, audit, faults, scenarios>>

NextApi == API_CreateSession \/ API_EndSession

SpecApi == Init /\ [][NextApi]_vars

(***************************************************************************)
(* Claims.                                                                 *)
(***************************************************************************)
IsTerminal(status) == status \in {"completed", "error"}

\* C1: a session is "running" with no ended-at right after start_session, and once
\* it has a terminal status no later call on the logger (another end_session
\* included) changes its status or its ended-at.
C1_TerminalSessionFrozen ==
    [][/\ Len(sessions') > Len(sessions) =>
            /\ sessions'[Len(sessions')].status = "running"
            /\ sessions'[Len(sessions')].ended_at = None
       /\ \A s \in DOMAIN sessions :
            IsTerminal(sessions[s].status) =>
                /\ sessions'[s].status = sessions[s].status
                /\ sessions'[s].ended_at = sessions[s].ended_at]_vars

\* ---- what a run left behind
InHandler == {"exc_l", "exc_r", "exc_end_l", "exc_end_r"}
FollowLine(r) == run[r].kind = "follow_line" /\ run[r].sid # None
\* successful end_session calls of the run whose session is sid
LocalEnds(sid) == Cardinality({k \in DOMAIN audit : audit[k].op = "end" /\ audit[k].who = sid})
\* requests of a kind issued by the run whose session is sid
Requests(sid, kind) == Cardinality({k \in DOMAIN net : net[k].kind = kind /\ net[k].who = sid})
EventsOf(sid, event_type, severity) ==
    Cardinality({k \in DOMAIN events : /\ events[k].session_id = sid
                                       /\ events[k].event_type = event_type
                                       /\ events[k].severity = severity})
\* rows of the two other tables that belong to session sid
Readings(sid) == {k \in DOMAIN sensor_readings : sensor_readings[k].session_id = sid}
Commands(sid) == {k \in DOMAIN actuator_commands : actuator_commands[k].session_id = sid}

\* C2: a follow_line run that reached Completed or Errored has ended its local
\* session exactly once and has requested the remote end exactly once when it has
\* a remote session (never when it has none), whatever path led there.
C2_EndsOnce ==
    \A r \in Robots :
        FollowLine(r) /\ run[r].pc \in {"completed", "errored"} =>
            /\ LocalEnds(run[r].sid) = 1
            /\ IsTerminal(sessions[run[r].sid].status)
            /\ Requests(run[r].sid, "end") = IF run[r].rsid # None THEN 1 ELSE 0

\* the completing end_session itself raised, and the handler ended both sessions
C2_Witness ==
    \E r \in Robots :
        /\ FollowLine(r) /\ run[r].pc = "errored" /\ run[r].exc_pc = "end_l"
        /\ run[r].rsid # None /\ run[r].step = MaxFrames

\* C3: a follow_line run in which a local write failed after the session was
\* created does not leave its session "running" once the call is over.
C3_LocalFaultTearsDown ==
    \A r \in Robots :
        FollowLine(r) /\ run[r].lfaults > 0 /\ run[r].pc \in Terminal =>
            sessions[run[r].sid].status # "running"

\* C4: once an exception was raised while a step of follow_line was processed and
\* the call is over, the session holds exactly one "error" Event, that Event was
\* sent to the remote sink when there is one, and both sessions were ended "error".
InStep == {"loop", "sens_l", "sens_r", "track", "off_l", "off_r", "drive_l", "drive_r",
           "act_l", "act_r"}
C4_StepFailureEndsErrored ==
    \A r \in Robots :
        FollowLine(r) /\ run[r].exc_pc \in InStep /\ run[r].pc \in Terminal =>
            /\ EventsOf(run[r].sid, "exception", "error") = 1
            /\ sessions[run[r].sid].status = "error"
            /\ run[r].rsid # None =>
                  /\ Cardinality({k \in DOMAIN net : /\ net[k].kind = "event"
                                                        /\ net[k].who = run[r].sid
                                                        /\ net[k].body[2] = "error"}) = 1
                  /\ Cardinality({k \in DOMAIN net : /\ net[k].kind = "end"
                                                        /\ net[k].who = run[r].sid
                                                        /\ net[k].body = <<"error">>}) = 1

\* C5: with the remote endpoint refusing the connection and the local store
\* accepting every write, a follow_line run over well-formed frames never raises
\* nor enters its handler; when it is over every frame was processed, the session
\* is "completed" and holds exactly one "server" / "warning" Event.
C5_RemoteDownCompletes ==
    \A r \in Robots :
        FollowLine(r) /\ run[r].pc # "create" /\ run[r].rsid = None
        /\ run[r].wellformed /\ run[r].lfaults = 0 =>
            /\ run[r].pc \notin InHandler \cup {"errored", "raised"}
            /\ EventsOf(run[r].sid, "server", "warning")
                  = IF run[r].pc = "degrade" THEN 0 ELSE 1
            /\ run[r].pc = "completed" =>
                  /\ sessions[run[r].sid].status = "completed"
                  /\ run[r].on_track_count + run[r].off_track_count = run[r].step
                  /\ Cardinality(Readings(run[r].sid)) = run[r].step * NSensors

C5_Witness ==
    \E r \in Robots :
        /\ FollowLine(r) /\ run[r].pc = "completed" /\ run[r].rsid = None
        /\ run[r].step = MaxFrames /\ Len(events) > 3

\* ---- remote calls, step by step
RemotePcs == {"create", "rstart", "sens_r", "off_r", "act_l", "act_r", "sum_r", "end_r",
              "exc_r", "exc_end_r"}
\* where the run continues when the remote call succeeded
OkSucc(rn) ==
    CASE rn.pc = "create" -> "rstart"
      [] rn.pc = "rstart" -> "lstart"
      [] rn.pc = "sens_r" -> IF rn.i < Len(rn.norm) THEN "sens_l" ELSE "track"
      [] rn.pc = "off_r" -> "drive_l"
      [] rn.pc = "act_l" -> "act_r"
      [] rn.pc = "act_r" -> "loop"
      [] rn.pc = "sum_r" -> "end_l"
      [] rn.pc = "end_r" -> "completed"
      [] rn.pc = "exc_r" -> "exc_end_l"
      [] rn.pc = "exc_end_r" -> "errored"
      [] OTHER -> rn.pc

\* C6 as stated: whatever a remote call does, it issues at most one request, the
\* local store is untouched, and the run continues exactly where it continues
\* when the call succeeds, so that the local trail and the terminal status are
\* those of the run in which every remote call succeeds.
C6_RemoteNeverMatters ==
    [][\A r \in Robots :
          run[r].pc \in RemotePcs /\ run'[r] # run[r] =>
              /\ UNCHANGED <<store, audit>>
              /\ Len(net') <= Len(net) + 1
              /\ run'[r].pc = OkSucc(run[r])]_vars

\* C6 amended: the same, except that a failed remote session creation sends the
\* run through one more local write, the "server" / "warning" Event, after which
\* it continues where the run with a remote session continues.
C6_RemoteOnlyDegrades ==
    [][\A r \in Robots :
          /\ run[r].pc \in RemotePcs /\ run'[r] # run[r] =>
                /\ UNCHANGED <<store, audit>>
                /\ Len(net') <= Len(net) + 1
                /\ \/ run'[r].pc = OkSucc(run[r])
                   \/ /\ run[r].pc = "create" /\ run'[r].rsid = None
                      /\ run'[r].pc = "degrade"
          /\ run[r].pc = "degrade" /\ run'[r].pc \notin {"degrade", "raised"} =>
                /\ run'[r].pc = "lstart"
                /\ Len(events') = Len(events) + 1
                /\ events'[Len(events')].event_type = "server"
                /\ events'[Len(events')].severity = "warning"
                /\ events'[Len(events')].session_id = run[r].sid
                /\ UNCHANGED <<sessions, sensor_readings, actuator_commands, net>>]_vars

\* a run completed although the request ending its remote session failed
C6_Witness ==
    \E r \in Robots :
        /\ FollowLine(r) /\ run[r].pc = "completed" /\ run[r].step = MaxFrames
        /\ run[r].rsid # None /\ remote_sessions[run[r].rsid].status = "running"

\* C7: a run whose remote session creation failed has no remote session id and
\* has issued no request but the creation; every other request carries the id of
\* a remote session that was created, the one of the run that issued it.
C7_NoRequestWithoutSession ==
    /\ \A k \in DOMAIN net :
          net[k].kind # "create" =>
              /\ net[k].sid \in DOMAIN remote_sessions
              /\ \A r \in Robots : run[r].sid = net[k].who => run[r].rsid = net[k].sid
    /\ \A r \in Robots :
          FollowLine(r) /\ run[r].pc # "create" /\ run[r].rsid = None =>
              /\ Requests(run[r].sid, "create") = 1
              /\ Cardinality({k \in DOMAIN net : net[k].who = run[r].sid}) = 1

C7_Witness ==
    \E r \in Robots :
        /\ FollowLine(r) /\ run[r].pc = "errored" /\ run[r].rsid = None
        /\ run[r].step = MaxFrames /\ Len(sensor_readings) >= NSensors

\* C8: a follow_line run over well-formed frames whose local writes all succeed
\* never enters its handler, whatever the remote calls do, and once Completed
\* after K frames its session holds K readings of each of IR_1..IR_N and no other
\* reading, and K commands of each of Motor_L and Motor_R and no other command.
C8_RowCounts ==
    \A r \in Robots :
        FollowLine(r) /\ run[r].wellformed /\ run[r].lfaults = 0 =>
            /\ run[r].pc \notin InHandler \cup {"errored", "raised"}
            /\ run[r].pc = "completed" =>
                  /\ \A c \in Channels :
                        Cardinality({k \in Readings(run[r].sid) :
                            sensor_readings[k].sensor_type = SensorName(c)}) = run[r].step
                  /\ Cardinality(Readings(run[r].sid)) = run[r].step * NSensors
                  /\ \A m \in {"Motor_L", "Motor_R"} :
                        Cardinality({k \in Commands(run[r].sid) :
                            actuator_commands[k].actuator_type = m}) = run[r].step
                  /\ Cardinality(Commands(run[r].sid)) = run[r].step * 2

\* a completed run of the longest scenario, in a store that holds an earlier session
C8_Witness ==
    \E r \in Robots :
        /\ FollowLine(r) /\ run[r].pc = "completed" /\ run[r].step = MaxFrames
        /\ run[r].sid > 1 /\ run[r].rsid # None

\* C9: when the calls of two robots overlap, the two runs have distinct sessions
\* and every write a run issues lands in that run's own session.
C9_NoLeakBetweenRuns ==
    /\ \A p, q \in Robots :
          p # q /\ run[p].sid # None /\ run[q].sid # None => run[p].sid # run[q].sid
    /\ \A k \in DOMAIN audit : audit[k].key = audit[k].who

\* C10: end_session leaves the logger bound to the session it ended, and a log_*
\* call made while the logger is bound to an ended session returns and appends
\* its record to that session.
LogOps == {"log_sensor", "log_command", "log_event"}
Table(op) ==
    CASE op = "log_sensor" -> sensor_readings
      [] op = "log_command" -> actuator_commands
      [] OTHER -> events
C10_WritesAfterEnd ==
    /\ last.op = "end_session" /\ last.ok =>
          Bound /\ IsTerminal(sessions[session_id].status)
    /\ last.op \in LogOps /\ Bound /\ IsTerminal(sessions[session_id].status) =>
          /\ last.ok
          /\ Table(last.op) # <<>>
          /\ Table(last.op)[Len(Table(last.op))].session_id = session_id

C10_Witness ==
    /\ last.op = "log_sensor" /\ last.ok /\ Bound
    /\ sessions[session_id].status = "error"
    /\ sensor_readings[Len(sensor_readings)].timestamp > sessions[session_id].ended_at

\* ---- counters and warnings of the step loop
\* the frame of the current step has been read, its classification is still to come
BeforeTrack == {"sens_l", "sens_r", "track"}
\* line_tracking warnings stored for session sid
Warnings(sid) ==
    {k \in DOMAIN events : /\ events[k].session_id = sid
                           /\ events[k].event_type = "line_tracking"
                           /\ events[k].severity = "warning"}
\* scenario_end events stored for session sid
Summaries(sid) ==
    {k \in DOMAIN events : events[k].session_id = sid /\ events[k].event_type = "scenario_end"}

\* C11: in a follow_line run every classified step has incremented exactly one of
\* the two counters, so their sum is the number of steps processed; every stored
\* line_tracking warning names the index of a different step; and at Completed
\* the session holds one warning per off-track step and a single scenario_end
\* Event, which reports the off-track count.
C11_CountersAndWarnings ==
    \A r \in Robots :
        FollowLine(r) =>
            /\ run[r].on_track_count + run[r].off_track_count
                  = IF run[r].pc \in BeforeTrack THEN run[r].step - 1
                    ELSE IF run[r].pc \in InHandler \cup {"errored", "raised"}
                              /\ run[r].exc_pc \in BeforeTrack \cup {"loop"}
                         THEN run[r].step - 1
                    ELSE run[r].step
            /\ \A k \in Warnings(run[r].sid) :
                  /\ events[k].message[2] \in 1..run[r].step
                  /\ \A j \in Warnings(run[r].sid) :
                        events[j].message = events[k].message => j = k
            /\ Cardinality(Warnings(run[r].sid)) <= run[r].off_track_count
            /\ run[r].pc \in {"sum_r", "end_l", "end_r", "completed"} =>
                  /\ Cardinality(Warnings(run[r].sid)) = run[r].off_track_count
                  /\ Cardinality(Summaries(run[r].sid)) = 1
                  /\ \A k \in Summaries(run[r].sid) :
                        /\ events[k].severity = "info"
                        /\ events[k].message[2] = run[r].off_track_count

\* a completed run with one step on the line and one step off it
C11_Witness ==
    \E r \in Robots :
        /\ FollowLine(r) /\ run[r].pc = "completed"
        /\ run[r].on_track_count = 1 /\ run[r].off_track_count = 1
        /\ Cardinality(Warnings(run[r].sid)) = 1

\* ---- the calibration-only entry point
Calibrate(r) == run[r].kind = "calibrate" /\ run[r].sid # None
EventsIn(sid) == {k \in DOMAIN events : events[k].session_id = sid}

\* C12: a calibrate run has opened one local session; it never issues a request to
\* the collector and stores no sensor reading and no actuator command; once it
\* is over its session is "completed", ended once, and holds exactly one Event,
\* of type calibration and severity "info".
C12_CalibrateLocalOnly ==
    \A r \in Robots :
        Calibrate(r) =>
            /\ Cardinality({k \in DOMAIN audit : audit[k].op = "start"
                                                 /\ audit[k].who = run[r].sid}) = 1
            /\ \A k \in DOMAIN net : net[k].who # run[r].sid
            /\ Readings(run[r].sid) = {} /\ Commands(run[r].sid) = {}
            /\ run[r].pc = "completed" =>
                  /\ sessions[run[r].sid].status = "completed"
                  /\ LocalEnds(run[r].sid) = 1
                  /\ Cardinality(EventsIn(run[r].sid)) = 1
                  /\ EventsOf(run[r].sid, "calibration", "info") = 1

\* a calibration completed after a follow_line run that did talk to the collector
C12_Witness ==
    \E r \in Robots :
        /\ Calibrate(r) /\ run[r].pc = "completed" /\ run[r].sid = 2
        /\ net # <<>> /\ sensor_readings # <<>>

\* ---- calls the logger refuses
tables == <<sessions, sensor_readings, actuator_commands, events>>

\* C13: a log_sensor, log_command, log_event or end_session call made while no
\* session has been started raises and leaves every table and the binding as
\* they were; so does a start_session call made while no connection is open.
C13_UnboundCallsFail ==
    [][/\ session_id = None /\ last'.op \in LogOps \cup {"end_session"} =>
            ~last'.ok /\ UNCHANGED <<tables, session_id, conn>>
       /\ ~conn /\ last'.op = "start_session" =>
            ~last'.ok /\ UNCHANGED <<tables, session_id, conn>>]_vars

\* a log_event call was refused on a connected logger that never had a session
C13_Witness ==
    /\ last = [op |-> "log_event", ok |-> FALSE]
    /\ conn /\ session_id = None /\ sessions = <<>> /\ events = <<>>

\* ---- the sensor array
\* C14: whatever levels the sensor was calibrated with, read_normalized returns,
\* one value per channel, each within [0, 1].
C14_ReadAlwaysInRange ==
    last.op = "read_normalized" =>
        /\ last.ok
        /\ DOMAIN run[1].norm = 1..robot[1].n
        /\ \A c \in 1..robot[1].n : run[1].norm[c] >= 0 /\ run[1].norm[c] <= SCALE

\* ---- the controller
\* error * dt summed over the update calls made so far
IntegralOf(calls) == SumSeq([j \in DOMAIN calls |-> (calls[j].error * calls[j].dt) \div 10])
\* the error of the call before the last one, 0 if there is none
PrevErrorOf(calls) == IF Len(calls) = 1 THEN 0 ELSE calls[Len(calls) - 1].error
\* kp * error + ki * integral + kd * (error - prevError) / dt for the last call
UnclampedOf(rb, calls) ==
    LET c == calls[Len(calls)]
    IN  (rb.kp * c.error + rb.ki * IntegralOf(calls)
           + rb.kd * (((c.error - PrevErrorOf(calls)) * 10) \div c.dt)) \div 10

\* C15: after any sequence of update calls the value returned by the last call is
\* kp*error + ki*integral + kd*(error - prevError)/dt clamped to [-1, 1], where
\* integral is the sum of error*dt over all calls and prevError the error of the
\* call before; the controller stores that sum, unclamped, and the last error.
C15_PidOutput ==
    audit # <<>> =>
        /\ robot[1].integral = IntegralOf(audit)
        /\ robot[1].prev_error = audit[Len(audit)].error
        /\ run[1].pid_out = Clamp(0 - SCALE, SCALE, UnclampedOf(robot[1], audit))
        /\ run[1].pid_out >= 0 - SCALE /\ run[1].pid_out <= SCALE

\* the stored integral has left [-1, 1] and the unclamped output has too
C15_Witness ==
    /\ Len(audit) = MaxUpdates /\ robot[1].ki # 0
    /\ robot[1].integral > SCALE
    /\ UnclampedOf(robot[1], audit) > SCALE /\ run[1].pid_out = SCALE

\* ---- the motor pair
\* C16: when drive(base_speed, diff) has returned, the pair it returned is
\* clamp(-1, 1, base_speed - diff) and clamp(-1, 1, base_speed + diff), both
\* within [-1, 1]; the last two actuator commands are Motor_L with the left value
\* then Motor_R with the right value, both "sent" and in the bound session; and
\* the table holds two commands per call made.
C16_Drive ==
    last = [op |-> "drive", ok |-> TRUE] =>
        LET c == audit[Len(audit)]
            n == Len(actuator_commands)
        IN  /\ run[1].left = Clamp(0 - SCALE, SCALE, c.base_speed - c.diff)
            /\ run[1].right = Clamp(0 - SCALE, SCALE, c.base_speed + c.diff)
            /\ run[1].left >= 0 - SCALE /\ run[1].left <= SCALE
            /\ run[1].right >= 0 - SCALE /\ run[1].right <= SCALE
            /\ n = 2 * Len(audit)
            /\ actuator_commands[n - 1].actuator_type = "Motor_L"
            /\ actuator_commands[n - 1].command = run[1].left
            /\ actuator_commands[n].actuator_type = "Motor_R"
            /\ actuator_commands[n].command = run[1].right
            /\ \A k \in {n - 1, n} : /\ actuator_commands[k].status = "sent"
                                     /\ actuator_commands[k].session_id = session_id
            /\ actuator_commands[n - 1].timestamp < actuator_commands[n].timestamp

\* a second drive call returned, with both commands clamped, to different ends
C16_Witness ==
    /\ last = [op |-> "drive", ok |-> TRUE] /\ Len(audit) = MaxDrives
    /\ audit[Len(audit)].base_speed - audit[Len(audit)].diff > SCALE
    /\ run[1].left = SCALE /\ run[1].right = 0 - SCALE

\* ---- the track state
\* the sum of the values without rounding
RECURSIVE ExactSum(_, _)
ExactSum(values, k) ==
    IF k = 0 THEN F_ZERO ELSE FAddExact(ExactSum(values, k - 1), values[k])

\* 0.2 <= mean <= 0.8 for the arithmetic mean itself
MeanInRange(values) ==
    LET total == ExactSum(values, Len(values))
    IN  /\ FLe(FScale(F_0_2, Len(values)), total)
        /\ FLe(total, FScale(F_0_8, Len(values)))

Updated == last.op = "track_update"

\* C17: update answers true exactly when the arithmetic mean of the values
\* lies in [0.2, 0.8], bounds included.
C17_OnTrackIffMeanInRange ==
    Updated => (run[1].on_track_count = 1 <=> MeanInRange(run[1].norm))

\* ---- one step of the default robot
\* the run is at its first step, on NormalFrame, the levels as constructed
DefaultStep ==
    /\ FollowLine(1) /\ run[1].step = 1
    /\ robot[1].white = NewRobot(N_DEFAULT).white
    /\ robot[1].black = NewRobot(N_DEFAULT).black
    /\ run[1].norm = read_normalized(NewRobot(N_DEFAULT), NormalFrame)
\* the step has been classified; the drive call has logged its two commands
Classified == {"off_l", "off_r", "drive_l", "drive_r", "act_l", "act_r"}
Driven == {"act_l", "act_r"}
\* sum / len, in hundredths
MeanHundredths(values) == Quot(Quot(SumSeq(values), Len(values)), SCALE \div 100)

StepOutcome(mean) ==
    DefaultStep /\ run[1].pc \in Classified =>
        /\ robot[1].prev_error = 0
        /\ run[1].pid_out = 0
        /\ MeanHundredths(run[1].norm) = mean
        /\ run[1].on_track_count = 1 /\ run[1].off_track_count = 0
        /\ run[1].pc \notin {"off_l", "off_r"}
        /\ Warnings(run[1].sid) = {}
        /\ run[1].pc \in Driven =>
              LET n == Len(actuator_commands)
              IN  /\ run[1].left = SCALE \div 2 /\ run[1].right = SCALE \div 2
                  /\ actuator_commands[n - 1].command = SCALE \div 2
                  /\ actuator_commands[n].command = SCALE \div 2

\* C18 as stated: on the frame [0.9, 0.6, 0.2, 0.6, 0.9] with five channels, the
\* levels as constructed, no noise and a fresh controller, the lateral error is
\* 0, the PID output is 0, the motor commands are (0.5, 0.5), the mean of the
\* normalized values is 0.46 and the step is on track.
C18_StepMean046 == StepOutcome(46)

\* C18 amended: the same, the mean of the normalized values being 0.64.
C18_StepMean064 == StepOutcome(64)

\* the step has been driven: both motor commands are in the store
C18_Witness == DefaultStep /\ run[1].pc = "act_r" /\ Len(actuator_commands) = 2

\* ---- the order of the records of a run
\* the j-th smallest element of a set of row or request indices
Nth(idx, j) == CHOOSE m \in idx : Cardinality({x \in idx : x < m}) = j - 1
\* the j-th reading and the j-th command stored for session sid
Reading(sid, j) == sensor_readings[Nth(Readings(sid), j)]
Command(sid, j) == actuator_commands[Nth(Commands(sid), j)]
\* the values of the readings of step k, n channels a step
StepValues(sid, n, k) == [c \in 1..n |-> Reading(sid, n * (k - 1) + c).value]
\* the summary and error events stored for session sid
Closings(sid) ==
    {k \in DOMAIN events : /\ events[k].session_id = sid
                           /\ events[k].event_type \in {"scenario_end", "exception"}}
\* the requests of a kind sent on behalf of session sid; the events stored for
\* sid that the run also sends (the two start events have no counterpart)
Sent(sid, kind) == {k \in DOMAIN net : net[k].kind = kind /\ net[k].who = sid}
Mirrored(sid) ==
    {k \in DOMAIN events : /\ events[k].session_id = sid
                           /\ events[k].event_type \notin {"server", "scenario_start_local"}}
SentEvents(sid) ==
    {k \in Sent(sid, "event") : net[k].body[1] # "scenario_start"}

\* the records of step k in order: IR_1 .. IR_n, the warning when the step is off
\* the line, Motor_L, Motor_R; and step k before step k + 1
StepsInOrder(sid, n) ==
    LET nr == Cardinality(Readings(sid))
        nc == Cardinality(Commands(sid))
    IN  /\ \A j \in 1..nr : Reading(sid, j).sensor_type = <<"IR", ((j - 1) % n) + 1>>
        /\ \A j \in 1..(nr - 1) : Reading(sid, j).timestamp < Reading(sid, j + 1).timestamp
        /\ \A j \in 1..nc :
              /\ Command(sid, j).actuator_type = IF j % 2 = 1 THEN "Motor_L" ELSE "Motor_R"
              /\ j % 2 = 1 => /\ nr >= n * ((j + 1) \div 2)
                              /\ Reading(sid, n * ((j + 1) \div 2)).timestamp
                                    < Command(sid, j).timestamp
              /\ j % 2 = 0 => Command(sid, j - 1).timestamp < Command(sid, j).timestamp
        /\ \A k \in 1..nr : nr >= n * k + 1 =>
              /\ nc >= 2 * k
              /\ Command(sid, 2 * k).timestamp < Reading(sid, n * k + 1).timestamp
        /\ \A w \in Warnings(sid) :
              LET k == events[w].message[2]
              IN  /\ nr >= n * k
                  /\ Reading(sid, n * k).timestamp < events[w].timestamp
                  /\ ~track_update(StepValues(sid, n, k))
                  /\ nc >= 2 * k - 1 => events[w].timestamp < Command(sid, 2 * k - 1).timestamp
        /\ \A k \in 1..nc : nc >= 2 * k - 1 /\ ~track_update(StepValues(sid, n, k)) =>
              \E w \in Warnings(sid) : events[w].message[2] = k

\* the summary or error event comes after every record of the steps
ClosingLast(sid) ==
    \A e \in Closings(sid) :
        /\ \A k \in Readings(sid) : sensor_readings[k].timestamp < events[e].timestamp
        /\ \A k \in Commands(sid) : actuator_commands[k].timestamp < events[e].timestamp
        /\ \A w \in Warnings(sid) : events[w].timestamp < events[e].timestamp

\* every request carrying a record was made when the record was in the store:
\* the j-th request of a kind carries the j-th stored record of that kind
LocalFirst(sid) ==
    /\ Cardinality(Sent(sid, "sensor")) <= Cardinality(Readings(sid))
    /\ \A j \in 1..Cardinality(Sent(sid, "sensor")) :
          net[Nth(Sent(sid, "sensor"), j)].body
             = <<Reading(sid, j).sensor_type, Reading(sid, j).value, Reading(sid, j).unit>>
    /\ Cardinality(Sent(sid, "actuator")) <= Cardinality(Commands(sid))
    /\ \A j \in 1..Cardinality(Sent(sid, "actuator")) :
          net[Nth(Sent(sid, "actuator"), j)].body
             = <<Command(sid, j).actuator_type, Command(sid, j).command, Command(sid, j).status>>
    /\ Cardinality(SentEvents(sid)) <= Cardinality(Mirrored(sid))
    /\ \A j \in 1..Cardinality(SentEvents(sid)) :
          LET e == events[Nth(Mirrored(sid), j)]
          IN  net[Nth(SentEvents(sid), j)].body = <<e.event_type, e.severity, e.message>>

\* C19: in the local records of a follow_line run the records of a step are the
\* readings IR_1 .. IR_N in channel order, then the line_tracking warning when the
\* step is off the line, then Motor_L, then Motor_R; the records of a step
\* precede those of the next; the summary or error event follows them all; and a
\* record is in the local store when the request carrying it is made.
C19_RecordOrder ==
    \A r \in Robots :
        FollowLine(r) =>
            /\ StepsInOrder(run[r].sid, robot[r].n)
            /\ ClosingLast(run[r].sid)
            /\ LocalFirst(run[r].sid)

\* a completed run of two steps, one of them off the line, every record of it
\* sent to the collector as well
C19_Witness ==
    \E r \in Robots :
        /\ FollowLine(r) /\ run[r].pc = "completed" /\ run[r].rsid # None
        /\ Cardinality(Commands(run[r].sid)) = 4
        /\ Cardinality(Warnings(run[r].sid)) = 1
        /\ Cardinality(Sent(run[r].sid, "sensor")) = 2 * robot[r].n
        /\ Cardinality(SentEvents(run[r].sid)) = 2

\* ---- records are only ever added
\* table t has gained one row, for the bound session, and kept the rows it had
Appended(t) ==
    /\ Len(Table(t)') = Len(Table(t)) + 1
    /\ SubSeq(Table(t)', 1, Len(Table(t))) = Table(t)
    /\ Table(t)'[Len(Table(t)')].session_id = session_id
    /\ \A u \in LogOps \ {t} : Table(u)' = Table(u)

\* C20: a log_sensor, log_command or log_event call that returns has added one
\* record to its own table, for the bound session, and has left every other
\* record, every session and the binding as they were; an end_session call that
\* returns has changed the status and the ended-at of the bound session and
\* nothing else.
C20_AppendOnly ==
    [][/\ \A t \in LogOps : last'.op = t /\ last'.ok =>
            /\ session_id # None
            /\ Appended(t)
            /\ UNCHANGED <<sessions, session_id, conn>>
       /\ last'.op = "end_session" /\ last'.ok =>
            /\ session_id # None
            /\ UNCHANGED <<sensor_readings, actuator_commands, events, session_id, conn>>
            /\ Len(sessions') = Len(sessions)
            /\ \A s \in DOMAIN sessions :
                  /\ s # session_id => sessions'[s] = sessions[s]
                  /\ sessions'[s].variant_id = sessions[s].variant_id
                  /\ sessions'[s].started_at = sessions[s].started_at]_vars

\* a second session logs an event while the first session's reading and command
\* are in the store
C20_Witness ==
    /\ last = [op |-> "log_event", ok |-> TRUE]
    /\ session_id = 2
    /\ sensor_readings # <<>> /\ actuator_commands # <<>>
    /\ sensor_readings[1].session_id = 1 /\ actuator_commands[1].session_id = 1
    /\ events[Len(events)].session_id = 2

\* ---- ending a session through the collector
\* C21: an end request for a session that is not running is rejected with 400 and
\* one for an id that names no session with 404 (422 in either case when its body
\* does not validate); neither changes the status or the ended-at of any session
\* nor creates one; so the status of a session changes only from "running", to the
\* status the request carries, and a session that has ended keeps its row.
C21_RemoteEndOnce ==
    [][/\ last'.op = "end" =>
            LET rq == net'[Len(net')]
                expected == IF rq.body[1] \in SessionEnd THEN 400 ELSE 422
                missing == IF rq.body[1] \in SessionEnd THEN 404 ELSE 422
            IN  /\ rq.sid \in DOMAIN remote_sessions
                      /\ remote_sessions[rq.sid].status # "running" =>
                      last'.code = expected /\ remote_sessions' = remote_sessions
                /\ rq.sid \notin DOMAIN remote_sessions =>
                      last'.code = missing /\ remote_sessions' = remote_sessions
                /\ \A s \in DOMAIN remote_sessions :
                      remote_sessions'[s] # remote_sessions[s] =>
                          /\ s = rq.sid /\ last'.code = 200
                          /\ remote_sessions'[s].status = rq.body[1]
                          /\ rq.body[1] \in {"completed", "error"}
       /\ Len(remote_sessions') >= Len(remote_sessions)
       /\ \A s \in DOMAIN remote_sessions :
             /\ remote_sessions[s].status # "running" => remote_sessions'[s] = remote_sessions[s]
             /\ remote_sessions'[s].status # remote_sessions[s].status =>
                   /\ remote_sessions[s].status = "running"
                   /\ remote_sessions[s].ended_at = None
                   /\ remote_sessions'[s].ended_at # None]_vars

\* a completed session was asked to end as "error" and the request was refused
C21_Witness ==
    /\ last.op = "end" /\ last.code = 400
    /\ net[Len(net)].body = <<"error">>
    /\ remote_sessions[net[Len(net)].sid].status = "completed"
    /\ remote_sessions[net[Len(net)].sid].ended_at < Len(net)

=============================================================================
